---- MODULE Spec2Model ----
(***************************************************************************)
(* Model of roboticstoolbox/robot/DHLink.py: the Denavit-Hartenberg link   *)
(* record (class DHLink), its validated property setters, the owner        *)
(* notification decorator _listen_dyn, the link transform A(q), the joint  *)
(* limit test islimit(q) and the friction law friction(qd, coulomb).       *)
(*                                                                         *)
(* Numbers.  Python floats are modelled by integers.  Angles handed to     *)
(* _sin/_cos are counted in quarter turns, so the trigonometry is exact.   *)
(* Entries of the inertia matrix are counted in units of 1e-8, so the      *)
(* symmetry tolerance of the I setter is one unit.                         *)
(*                                                                         *)
(* Array-like arguments are tagged values:                                 *)
(*   [k |-> "s", v |-> x]    a scalar x                                    *)
(*   [k |-> "v", v |-> seq]  a one-dimensional array                       *)
(*   [k |-> "m", v |-> rows] a two-dimensional array (sequence of rows)    *)
(***************************************************************************)
EXTENDS Integers, Sequences, FiniteSets, TLC

VARIABLES
    link,      \* the DHLink object: a record of its fields _d, _alpha, ...
    robot,     \* self._robot: None or the owning robot
    op,        \* name of the last operation performed on the link
    arg,       \* argument of the last operation
    err,       \* "ok", or the exception the last operation raised
    notified,  \* calls of robot.dynchanged() made during the last operation
    ret,       \* value returned by the last query (A, islimit, friction)
    ncalls     \* number of operations performed since construction

vars == <<link, robot, op, arg, err, notified, ret, ncalls>>

\* ------------------------------------------------------------------------
\* Bounds of the exploration
\* ------------------------------------------------------------------------

\* longest sequence of operations explored after construction
MaxCalls == 2

\* ------------------------------------------------------------------------
\* Values
\* ------------------------------------------------------------------------

None == "None"
OK == "ok"

\* symmetry tolerance of the inertia setter (1e-8), in units of 1e-8
SymTol == 1

S(x) == [k |-> "s", v |-> x]
V(x) == [k |-> "v", v |-> x]
M(x) == [k |-> "m", v |-> x]

Abs(x) == IF x < 0 THEN -x ELSE x

Zeros2 == <<0, 0>>
Zeros3 == <<0, 0, 0>>
Zeros33 == <<Zeros3, Zeros3, Zeros3>>

\* Python truth value of a number
truthy(x) == x # 0

\* int(mdh_new) for a bool argument
int(b) == IF b THEN 1 ELSE 0

\* results of a call: the exception (or "ok") and the object afterwards
Ok(self) == [err |-> OK, self |-> self]
Raise(e, self) == [err |-> e, self |-> self]

\* run F on the object unless an earlier statement has raised
Bind(res, F(_)) == IF res.err # OK THEN res ELSE F(res.self)

\* ------------------------------------------------------------------------
\* spatialmath.base.argcheck helpers used by the setters
\* ------------------------------------------------------------------------

isscalar(x) == x.k = "s"

isvector(x, dim) == x.k = "v" /\ Len(x.v) = dim

ismatrix(x, rows, cols) ==
    /\ x.k = "m"
    /\ Len(x.v) = rows
    /\ \A i \in 1..rows : Len(x.v[i]) = cols

\* getvector(v, dim): the 1-d array of length dim, or ValueError
getvector(x, dim) ==
    IF x.k = "s"
    THEN IF dim = 1 THEN [err |-> OK, val |-> <<x.v>>]
                    ELSE [err |-> "ValueError", val |-> <<>>]
    ELSE IF x.k = "v" /\ Len(x.v) = dim
         THEN [err |-> OK, val |-> x.v]
         ELSE [err |-> "ValueError", val |-> <<>>]

\* ------------------------------------------------------------------------
\* _listen_dyn: the decorator calls robot.dynchanged() before the setter
\* body runs, when the link has an owner
\* ------------------------------------------------------------------------

\* variant: the decorator runs the setter without calling the owner
listen_dyn_silent(owner) == 0

listen_dyn(owner) == IF owner # None THEN 1 ELSE 0

\* ------------------------------------------------------------------------
\* Property setters (bodies, without the decorator)
\* ------------------------------------------------------------------------

\* variant: only a positive d is refused on a prismatic joint
set_d_positive(self, d_new) ==
    IF truthy(self.sigma) /\ d_new > 0
    THEN Raise("ValueError: f is not valid for prismatic joints", self)
    ELSE Ok([self EXCEPT !.d = d_new])

set_d(self, d_new) ==
    IF truthy(self.sigma) /\ d_new # 0
    THEN Raise("ValueError: f is not valid for prismatic joints", self)
    ELSE Ok([self EXCEPT !.d = d_new])

set_alpha(self, alpha_new) == Ok([self EXCEPT !.alpha = alpha_new])

set_theta(self, theta_new) ==
    IF ~truthy(self.sigma) /\ theta_new # 0
    THEN Raise("ValueError: theta is not valid for revolute joints", self)
    ELSE Ok([self EXCEPT !.theta = theta_new])

set_a(self, a_new) == Ok([self EXCEPT !.a = a_new])

set_sigma(self, sigma_new) == Ok([self EXCEPT !.sigma = sigma_new])

set_mdh(self, mdh_new) == Ok([self EXCEPT !.mdh = int(mdh_new)])

set_offset(self, offset_new) == Ok([self EXCEPT !.offset = offset_new])

set_qlim(self, qlim_new) ==
    LET g == getvector(qlim_new, 2)
    IN  IF g.err # OK THEN Raise(g.err, self)
        ELSE Ok([self EXCEPT !.qlim = g.val])

set_flip(self, flip_new) == Ok([self EXCEPT !.flip = flip_new])

set_m(self, m_new) == Ok([self EXCEPT !.m = m_new])

set_r(self, r_new) ==
    LET g == getvector(r_new, 3)
    IN  IF g.err # OK THEN Raise(g.err, self)
        ELSE Ok([self EXCEPT !.r = g.val])

\* variant: the comparison with the tolerance is not strict
notsymmetric_ge(X) == \E i, j \in 1..3 : i # j /\ Abs(X[i][j] - X[j][i]) >= SymTol

\* np.any(np.abs(I_new - I_new.T) > 1e-8) for a 3x3 array
notsymmetric(X) == \E i, j \in 1..3 : Abs(X[i][j] - X[j][i]) > SymTol

\* I_new.reshape(3, 3) of a 9-vector (row-major)
reshape33(x) == <<<<x[1], x[2], x[3]>>, <<x[4], x[5], x[6]>>, <<x[7], x[8], x[9]>>>>

\* variant: Iyz and Ixz change places
from6_swapped(x) == <<<<x[1], x[4], x[5]>>, <<x[4], x[2], x[6]>>, <<x[5], x[6], x[3]>>>>

\* the 3x3 array built from [Ixx Iyy Izz Ixy Iyz Ixz] (0-based I_new[k] is x[k+1])
from6(x) == <<<<x[1], x[4], x[6]>>, <<x[4], x[2], x[5]>>, <<x[6], x[5], x[3]>>>>

\* np.diag of a 3-vector
diag(x) == <<<<x[1], 0, 0>>, <<0, x[2], 0>>, <<0, 0, x[3]>>>>

\* variant: the reshaped 9-vector is stored before its symmetry is tested
set_I_early(self, I_new) ==
    IF ismatrix(I_new, 3, 3)
    THEN IF notsymmetric(I_new.v)
         THEN Raise("ValueError: 3x3 matrix is not symmetric", self)
         ELSE Ok([self EXCEPT !.I = I_new.v])
    ELSE IF isvector(I_new, 9)
    THEN IF notsymmetric(reshape33(I_new.v))
         THEN Raise("ValueError: 3x3 matrix is not symmetric",
                    [self EXCEPT !.I = reshape33(I_new.v)])
         ELSE Ok([self EXCEPT !.I = reshape33(I_new.v)])
    ELSE IF isvector(I_new, 6)
    THEN Ok([self EXCEPT !.I = from6(I_new.v)])
    ELSE IF isvector(I_new, 3)
    THEN Ok([self EXCEPT !.I = diag(I_new.v)])
    ELSE Raise("ValueError: invalid shape passed: must be (3,3), (6,), (3,)", self)

\* variant: a 9-vector is reshaped and stored without the symmetry test
set_I_unchecked9(self, I_new) ==
    IF ismatrix(I_new, 3, 3)
    THEN IF notsymmetric(I_new.v)
         THEN Raise("ValueError: 3x3 matrix is not symmetric", self)
         ELSE Ok([self EXCEPT !.I = I_new.v])
    ELSE IF isvector(I_new, 9)
    THEN Ok([self EXCEPT !.I = reshape33(I_new.v)])
    ELSE IF isvector(I_new, 6)
    THEN Ok([self EXCEPT !.I = from6(I_new.v)])
    ELSE IF isvector(I_new, 3)
    THEN Ok([self EXCEPT !.I = diag(I_new.v)])
    ELSE Raise("ValueError: invalid shape passed: must be (3,3), (6,), (3,)", self)

set_I(self, I_new) ==
    IF ismatrix(I_new, 3, 3)
    THEN IF notsymmetric(I_new.v)
         THEN Raise("ValueError: 3x3 matrix is not symmetric", self)
         ELSE Ok([self EXCEPT !.I = I_new.v])
    ELSE IF isvector(I_new, 9)
    THEN IF notsymmetric(reshape33(I_new.v))
         THEN Raise("ValueError: 3x3 matrix is not symmetric", self)
         ELSE Ok([self EXCEPT !.I = reshape33(I_new.v)])
    ELSE IF isvector(I_new, 6)
    THEN Ok([self EXCEPT !.I = from6(I_new.v)])
    ELSE IF isvector(I_new, 3)
    THEN Ok([self EXCEPT !.I = diag(I_new.v)])
    ELSE Raise("ValueError: invalid shape passed: must be (3,3), (6,), (3,)", self)

set_Jm(self, Jm_new) == Ok([self EXCEPT !.Jm = Jm_new])

set_B(self, B_new) ==
    IF isscalar(B_new)
    THEN Ok([self EXCEPT !.B = B_new.v])
    ELSE Raise("TypeError: B must be a scalar", self)

\* variant: a single value F is stored as (F, F)
set_Tc_same(self, Tc_new) ==
    LET g1 == getvector(Tc_new, 1)
        g2 == getvector(Tc_new, 2)
    IN  IF g1.err = OK
        THEN Ok([self EXCEPT !.Tc = <<g1.val[1], g1.val[1]>>])
        ELSE IF g2.err = OK
             THEN Ok([self EXCEPT !.Tc = g2.val])
             ELSE Raise(g2.err, self)

set_Tc(self, Tc_new) ==
    LET g1 == getvector(Tc_new, 1)
        g2 == getvector(Tc_new, 2)
    IN  IF g1.err = OK
        THEN Ok([self EXCEPT !.Tc = <<g1.val[1], -g1.val[1]>>])
        ELSE IF g2.err = OK
             THEN Ok([self EXCEPT !.Tc = g2.val])
             ELSE Raise(g2.err, self)

set_G(self, G_new) == Ok([self EXCEPT !.G = G_new])

\* ------------------------------------------------------------------------
\* Construction
\* ------------------------------------------------------------------------

\* the defaults of DHLink.__init__'s parameters
DefaultArgs ==
    [d |-> 0, alpha |-> 0, theta |-> 0, a |-> 0, sigma |-> 0, mdh |-> FALSE,
     offset |-> 0, qlim |-> V(Zeros2), flip |-> FALSE, m |-> 0,
     r |-> V(Zeros3), I |-> M(Zeros33), Jm |-> 0, B |-> S(0),
     Tc |-> V(Zeros2), G |-> 1]

\* the object before __init__ has assigned any field
Blank ==
    [d |-> 0, alpha |-> 0, theta |-> 0, a |-> 0, sigma |-> 0, mdh |-> 0,
     offset |-> 0, qlim |-> Zeros2, flip |-> FALSE, m |-> 0,
     r |-> Zeros3, I |-> Zeros33, Jm |-> 0, B |-> 0,
     Tc |-> Zeros2, G |-> 0]

\* DHLink.__init__: the setters run in the order of the assignments, with
\* self._robot = None, and the first exception aborts the construction
DHLink_init(p) ==
    LET s1  == set_sigma(Blank, p.sigma)
        s2  == Bind(s1,  LAMBDA s : set_theta(s, p.theta))
        s3  == Bind(s2,  LAMBDA s : set_d(s, p.d))
        s4  == Bind(s3,  LAMBDA s : set_alpha(s, p.alpha))
        s5  == Bind(s4,  LAMBDA s : set_a(s, p.a))
        s6  == Bind(s5,  LAMBDA s : set_mdh(s, p.mdh))
        s7  == Bind(s6,  LAMBDA s : set_offset(s, p.offset))
        s8  == Bind(s7,  LAMBDA s : set_flip(s, p.flip))
        s9  == Bind(s8,  LAMBDA s : set_qlim(s, p.qlim))
        s10 == Bind(s9,  LAMBDA s : set_m(s, p.m))
        s11 == Bind(s10, LAMBDA s : set_r(s, p.r))
        s12 == Bind(s11, LAMBDA s : set_I(s, p.I))
        s13 == Bind(s12, LAMBDA s : set_Jm(s, p.Jm))
        s14 == Bind(s13, LAMBDA s : set_B(s, p.B))
        s15 == Bind(s14, LAMBDA s : set_Tc(s, p.Tc))
    IN  Bind(s15, LAMBDA s : set_G(s, p.G))

\* the state right after a successful construction with arguments p
Constructed(p) ==
    /\ DHLink_init(p).err = OK
    /\ link = DHLink_init(p).self
    /\ robot = None
    /\ op = "init"
    /\ arg = None
    /\ err = OK
    /\ notified = 0
    /\ ret = None
    /\ ncalls = 0

\* ------------------------------------------------------------------------
\* Preset constructors.  A call is [args |-> the keyword values, kw |-> the
\* name of one further keyword passed through **kwargs, or ""].  A keyword
\* in **kwargs that the preset also passes to DHLink.__init__ makes the
\* super().__init__ call raise TypeError before any field is assigned.
\* ------------------------------------------------------------------------

DuplicateKeyword == "TypeError: got multiple values for keyword argument"

\* variant: the caller's theta is handed on instead of 0
RevoluteDH_init_theta(p) ==
    IF p.kw \in {"theta", "sigma", "mdh"}
    THEN Raise(DuplicateKeyword, Blank)
    ELSE DHLink_init([p.args EXCEPT !.sigma = 0, !.mdh = FALSE])

\* RevoluteDH.__init__
RevoluteDH_init(p) ==
    IF p.kw \in {"theta", "sigma", "mdh"}
    THEN Raise(DuplicateKeyword, Blank)
    ELSE DHLink_init([p.args EXCEPT !.theta = 0, !.sigma = 0, !.mdh = FALSE])

\* PrismaticDH.__init__
PrismaticDH_init(p) ==
    IF p.kw \in {"d", "sigma", "mdh"}
    THEN Raise(DuplicateKeyword, Blank)
    ELSE DHLink_init([p.args EXCEPT !.d = 0, !.sigma = 1, !.mdh = FALSE])

\* RevoluteMDH.__init__
RevoluteMDH_init(p) ==
    IF p.kw \in {"theta", "sigma", "mdh"}
    THEN Raise(DuplicateKeyword, Blank)
    ELSE DHLink_init([p.args EXCEPT !.theta = 0, !.sigma = 0, !.mdh = TRUE])

\* PrismaticMDH.__init__
PrismaticMDH_init(p) ==
    IF p.kw \in {"d", "sigma", "mdh"}
    THEN Raise(DuplicateKeyword, Blank)
    ELSE DHLink_init([p.args EXCEPT !.d = 0, !.sigma = 1, !.mdh = TRUE])

\* the state right after the constructor call name(p) has returned or raised
ConstructedBy(name, p, res) ==
    /\ link = res.self
    /\ robot = None
    /\ op = name
    /\ arg = p
    /\ err = res.err
    /\ notified = 0
    /\ ret = None
    /\ ncalls = 0

\* ------------------------------------------------------------------------
\* Queries
\* ------------------------------------------------------------------------

\* np.sin / np.cos of an angle of k quarter turns
_sin(k) == CASE k % 4 = 0 -> 0 [] k % 4 = 1 -> 1 [] k % 4 = 2 -> 0 [] OTHER -> -1

_cos(k) == CASE k % 4 = 0 -> 1 [] k % 4 = 1 -> 0 [] k % 4 = 2 -> -1 [] OTHER -> 0

\* variant: the joint variable is taken as the offset of a revolute joint
\* and the stored d as that of a prismatic joint
A_swapped(self, q) ==
    LET sa == _sin(self.alpha)
        ca == _cos(self.alpha)
        q1 == IF self.flip THEN -q + self.offset ELSE q + self.offset
        st == IF self.sigma = 0 THEN _sin(q1) ELSE _sin(self.theta)
        ct == IF self.sigma = 0 THEN _cos(q1) ELSE _cos(self.theta)
        d  == IF self.sigma = 0 THEN q1 ELSE self.d
    IN  IF self.mdh = 0
        THEN <<<<ct, -st * ca, st * sa, self.a * ct>>,
               <<st, ct * ca, -ct * sa, self.a * st>>,
               <<0, sa, ca, d>>,
               <<0, 0, 0, 1>>>>
        ELSE <<<<ct, -st, 0, self.a>>,
               <<st * ca, ct * ca, -sa, -sa * d>>,
               <<st * sa, ct * sa, ca, ca * d>>,
               <<0, 0, 0, 1>>>>

\* variant: the flip negates the offset together with the joint variable
A_negoffset(self, q) ==
    LET sa == _sin(self.alpha)
        ca == _cos(self.alpha)
        q1 == IF self.flip THEN -(q + self.offset) ELSE q + self.offset
        st == IF self.sigma = 0 THEN _sin(q1) ELSE _sin(self.theta)
        ct == IF self.sigma = 0 THEN _cos(q1) ELSE _cos(self.theta)
        d  == IF self.sigma = 0 THEN self.d ELSE q1
    IN  IF self.mdh = 0
        THEN <<<<ct, -st * ca, st * sa, self.a * ct>>,
               <<st, ct * ca, -ct * sa, self.a * st>>,
               <<0, sa, ca, d>>,
               <<0, 0, 0, 1>>>>
        ELSE <<<<ct, -st, 0, self.a>>,
               <<st * ca, ct * ca, -sa, -sa * d>>,
               <<st * sa, ct * sa, ca, ca * d>>,
               <<0, 0, 0, 1>>>>

\* DHLink.A(q): the 4x4 array handed to SE3(T, check=False)
A(self, q) ==
    LET sa == _sin(self.alpha)
        ca == _cos(self.alpha)
        q1 == IF self.flip THEN -q + self.offset ELSE q + self.offset
        st == IF self.sigma = 0 THEN _sin(q1) ELSE _sin(self.theta)
        ct == IF self.sigma = 0 THEN _cos(q1) ELSE _cos(self.theta)
        d  == IF self.sigma = 0 THEN self.d ELSE q1
    IN  IF self.mdh = 0
        THEN <<<<ct, -st * ca, st * sa, self.a * ct>>,
               <<st, ct * ca, -ct * sa, self.a * st>>,
               <<0, sa, ca, d>>,
               <<0, 0, 0, 1>>>>
        ELSE <<<<ct, -st, 0, self.a>>,
               <<st * ca, ct * ca, -sa, -sa * d>>,
               <<st * sa, ct * sa, ca, ca * d>>,
               <<0, 0, 0, 1>>>>

\* variant: the bounds themselves count as exceeded
islimit_ge(self, q) ==
    IF q <= self.qlim[1] \/ q >= self.qlim[2] THEN TRUE ELSE FALSE

\* DHLink.islimit(q)
islimit(self, q) ==
    IF q < self.qlim[1] \/ q > self.qlim[2] THEN TRUE ELSE FALSE

\* DHLink.isrevolute() and DHLink.isprismatic()
isrevolute(self) == IF ~truthy(self.sigma) THEN TRUE ELSE FALSE

isprismatic(self) == IF truthy(self.sigma) THEN TRUE ELSE FALSE

\* variant: the final scaling keeps the sign of G
friction_signed(self, qd, coulomb) ==
    LET tau0 == self.B * Abs(self.G) * qd
        tau1 == IF coulomb
                THEN IF qd > 0 THEN tau0 + self.Tc[1]
                     ELSE IF qd < 0 THEN tau0 + self.Tc[2]
                     ELSE tau0
                ELSE tau0
    IN  -self.G * tau1

\* DHLink.friction(qd, coulomb)
friction(self, qd, coulomb) ==
    LET tau0 == self.B * Abs(self.G) * qd
        tau1 == IF coulomb
                THEN IF qd > 0 THEN tau0 + self.Tc[1]
                     ELSE IF qd < 0 THEN tau0 + self.Tc[2]
                     ELSE tau0
                ELSE tau0
    IN  -Abs(self.G) * tau1

\* ------------------------------------------------------------------------
\* Copies.  An object is the pair of its fields and its _robot attribute.
\* ------------------------------------------------------------------------

\* variant: the copy is built afresh and starts without an owner
copy_fresh(obj) == [obj EXCEPT !.robot = None]

\* DHLink._copy(): copy.copy(self) copies every attribute, _robot included
_copy(obj) == obj

\* the flags of a nofriction call: no argument means coulomb=True,
\* viscous=False
nofriction_flags(a) == IF a = <<>> THEN <<TRUE, FALSE>> ELSE a

\* variant: each flag clears the other friction term
nofriction_crossed(self, owner, coulomb, viscous) ==
    LET c  == _copy([link |-> self, robot |-> owner])
        s1 == IF coulomb THEN set_B(c.link, S(0)) ELSE Ok(c.link)
        n1 == IF coulomb THEN listen_dyn(c.robot) ELSE 0
        s2 == IF viscous
              THEN Bind(s1, LAMBDA s : set_Tc(s, V(Zeros2)))
              ELSE s1
        n2 == IF viscous /\ s1.err = OK THEN n1 + listen_dyn(c.robot) ELSE n1
    IN  [err |-> s2.err, link |-> s2.self, robot |-> c.robot, notified |-> n2]

\* variant: the Coulomb pair is exchanged instead of cleared
nofriction_mirror(self, owner, coulomb, viscous) ==
    LET c  == _copy([link |-> self, robot |-> owner])
        s1 == IF viscous THEN set_B(c.link, S(0)) ELSE Ok(c.link)
        n1 == IF viscous THEN listen_dyn(c.robot) ELSE 0
        s2 == IF coulomb
              THEN Bind(s1, LAMBDA s : set_Tc(s, V(<<s.Tc[2], s.Tc[1]>>)))
              ELSE s1
        n2 == IF coulomb /\ s1.err = OK THEN n1 + listen_dyn(c.robot) ELSE n1
    IN  [err |-> s2.err, link |-> s2.self, robot |-> c.robot, notified |-> n2]

\* DHLink.nofriction(coulomb, viscous): the copy, its owner, and the calls
\* of dynchanged() made by the decorated B and Tc setters on the copy
nofriction(self, owner, coulomb, viscous) ==
    LET c  == _copy([link |-> self, robot |-> owner])
        s1 == IF viscous THEN set_B(c.link, S(0)) ELSE Ok(c.link)
        n1 == IF viscous THEN listen_dyn(c.robot) ELSE 0
        s2 == IF coulomb
              THEN Bind(s1, LAMBDA s : set_Tc(s, V(Zeros2)))
              ELSE s1
        n2 == IF coulomb /\ s1.err = OK THEN n1 + listen_dyn(c.robot) ELSE n1
    IN  [err |-> s2.err, link |-> s2.self, robot |-> c.robot, notified |-> n2]

\* ------------------------------------------------------------------------
\* Arguments explored
\* ------------------------------------------------------------------------

\* scalar arguments of the unvalidated setters and of d, theta
Scalars == {-1, 0, 2}

SigmaVals == {0, 1}

QlimArgs == {V(<<0, 0>>), V(<<-1, 2>>), V(<<2, -1>>), V(<<1>>), V(<<0, 1, 2>>), S(1)}

RArgs == {V(<<0, 0, 0>>), V(<<1, 2, 3>>), V(<<1, 2>>), S(1)}

BArgs == {S(0), S(2), V(<<2>>), V(<<1, 2>>)}

TcArgs == {S(5), V(<<3>>), V(<<1, -1>>), V(<<2, 3>>), V(<<>>), V(<<1, 2, 3>>),
           M(<<<<1, 2>>, <<3, 4>>>>)}

\* 3x3 arrays: symmetric, within the tolerance, and beyond it in each pair
Mats == {<<<<1, 4, 6>>, <<4, 2, 5>>, <<6, 5, 3>>>>,
         <<<<1, 4, 6>>, <<5, 2, 5>>, <<6, 4, 3>>>>,
         <<<<1, 4, 6>>, <<6, 2, 5>>, <<6, 5, 3>>>>,
         <<<<1, 4, 6>>, <<4, 2, 7>>, <<6, 5, 3>>>>,
         <<<<1, 4, 8>>, <<4, 2, 5>>, <<6, 5, 3>>>>}

flat(X) == <<X[1][1], X[1][2], X[1][3], X[2][1], X[2][2], X[2][3],
             X[3][1], X[3][2], X[3][3]>>

IArgs == {M(X) : X \in Mats} \cup {V(flat(X)) : X \in Mats}
         \cup {V(<<1, 2, 3, 4, 5, 6>>), V(<<7, 8, 9>>), V(<<0, 0, 0>>),
               V(<<1, 2, 3, 4>>), M(<<<<1, 2>>, <<2, 1>>>>), S(1)}

\* constructor arguments of the setter exploration
InitArgs ==
    {[DefaultArgs EXCEPT !.sigma = s, !.d = x, !.theta = t] :
        s \in SigmaVals, x \in {0, 2}, t \in {0, 2}}

\* ------------------------------------------------------------------------
\* Operations on a constructed link
\* ------------------------------------------------------------------------

\* variant: the owner is called after the body, so not when the body raises
DynSetter_after(name, a, res) ==
    /\ ncalls < MaxCalls
    /\ notified' = IF res.err = OK THEN listen_dyn(robot) ELSE 0
    /\ link' = res.self
    /\ err' = res.err
    /\ op' = name
    /\ arg' = a
    /\ ret' = None
    /\ ncalls' = ncalls + 1
    /\ UNCHANGED robot

\* a setter decorated with @_listen_dyn: notify the owner, then run the body
DynSetter(name, a, res) ==
    /\ ncalls < MaxCalls
    /\ notified' = listen_dyn(robot)
    /\ link' = res.self
    /\ err' = res.err
    /\ op' = name
    /\ arg' = a
    /\ ret' = None
    /\ ncalls' = ncalls + 1
    /\ UNCHANGED robot

\* an undecorated setter
PlainSetter(name, a, res) ==
    /\ ncalls < MaxCalls
    /\ notified' = 0
    /\ link' = res.self
    /\ err' = res.err
    /\ op' = name
    /\ arg' = a
    /\ ret' = None
    /\ ncalls' = ncalls + 1
    /\ UNCHANGED robot

d_setter == \E x \in Scalars : DynSetter("d", x, set_d(link, x))
alpha_setter == \E x \in Scalars : DynSetter("alpha", x, set_alpha(link, x))
theta_setter == \E x \in Scalars : DynSetter("theta", x, set_theta(link, x))
a_setter == \E x \in Scalars : DynSetter("a", x, set_a(link, x))
sigma_setter == \E x \in SigmaVals : DynSetter("sigma", x, set_sigma(link, x))
mdh_setter == \E x \in BOOLEAN : DynSetter("mdh", x, set_mdh(link, x))
offset_setter == \E x \in Scalars : PlainSetter("offset", x, set_offset(link, x))
qlim_setter == \E x \in QlimArgs : PlainSetter("qlim", x, set_qlim(link, x))
flip_setter == \E x \in BOOLEAN : PlainSetter("flip", x, set_flip(link, x))
m_setter == \E x \in Scalars : DynSetter("m", x, set_m(link, x))
r_setter == \E x \in RArgs : DynSetter("r", x, set_r(link, x))
I_setter == \E x \in IArgs : DynSetter("I", x, set_I(link, x))
Jm_setter == \E x \in Scalars : DynSetter("Jm", x, set_Jm(link, x))
B_setter == \E x \in BArgs : DynSetter("B", x, set_B(link, x))
Tc_setter == \E x \in TcArgs : DynSetter("Tc", x, set_Tc(link, x))
G_setter == \E x \in Scalars : DynSetter("G", x, set_G(link, x))

\* the owning robot takes the link: link._robot = robot
Attach ==
    /\ ncalls < MaxCalls
    /\ robot = None
    /\ robot' = "robot"
    /\ op' = "attach"
    /\ arg' = None
    /\ err' = OK
    /\ notified' = 0
    /\ ret' = None
    /\ ncalls' = ncalls + 1
    /\ UNCHANGED link

Init == \E p \in InitArgs : Constructed(p)

Next ==
    \/ d_setter
    \/ alpha_setter
    \/ theta_setter
    \/ a_setter
    \/ sigma_setter
    \/ mdh_setter
    \/ offset_setter
    \/ qlim_setter
    \/ flip_setter
    \/ m_setter
    \/ r_setter
    \/ I_setter
    \/ Jm_setter
    \/ B_setter
    \/ Tc_setter
    \/ G_setter
    \/ Attach

Spec == Init /\ [][Next]_vars

\* ------------------------------------------------------------------------
\* Kinematic queries: links built with varied kinematic parameters, on which
\* A(q) and islimit(q) are evaluated, with the sigma and qlim setters
\* ------------------------------------------------------------------------

\* variant: the query carries the @_listen_dyn decorator
Query_listening(name, a, value) ==
    /\ ncalls < MaxCalls
    /\ ret' = value
    /\ op' = name
    /\ arg' = a
    /\ err' = OK
    /\ notified' = listen_dyn(robot)
    /\ ncalls' = ncalls + 1
    /\ UNCHANGED <<link, robot>>

\* a query: returns a value, raises nothing, assigns no attribute
Query(name, a, value) ==
    /\ ncalls < MaxCalls
    /\ ret' = value
    /\ op' = name
    /\ arg' = a
    /\ err' = OK
    /\ notified' = 0
    /\ ncalls' = ncalls + 1
    /\ UNCHANGED <<link, robot>>

QVals == {-2, -1, 0, 1, 2, 3}

A_call == \E q \in QVals : Query("A", q, A(link, q))

islimit_call == \E q \in QVals : Query("islimit", q, islimit(link, q))

KinArgs ==
    {[DefaultArgs EXCEPT !.sigma = s, !.d = x, !.theta = t, !.alpha = al,
                         !.a = len, !.mdh = md, !.offset = o, !.flip = f,
                         !.qlim = ql] :
        s \in SigmaVals, x \in {0, 2}, t \in {0, 1}, al \in {0, 1},
        len \in {0, 1}, md \in BOOLEAN, o \in {0, 1}, f \in BOOLEAN,
        ql \in {V(<<0, 0>>), V(<<-1, 1>>)}}

InitKin == \E p \in KinArgs : Constructed(p)

NextKin ==
    \/ A_call
    \/ islimit_call
    \/ sigma_setter
    \/ qlim_setter

SpecKin == InitKin /\ [][NextKin]_vars

\* ------------------------------------------------------------------------
\* Friction: links built with varied B, Tc and G, on which friction(qd,
\* coulomb) is evaluated
\* ------------------------------------------------------------------------

QdVals == {-2, 0, 4}

friction_call ==
    \E qd \in QdVals, coulomb \in BOOLEAN :
        Query("friction", <<qd, coulomb>>, friction(link, qd, coulomb))

DynArgs ==
    {[DefaultArgs EXCEPT !.B = b, !.Tc = tc, !.G = g] :
        b \in {S(0), S(2)},
        tc \in {V(<<0, 0>>), V(<<1, -1>>), V(<<2, 3>>), S(5)},
        g \in {-3, -1, 1, 2}}

InitDyn == \E p \in DynArgs : Constructed(p)

NextDyn ==
    \/ friction_call
    \/ G_setter

SpecDyn == InitDyn /\ [][NextDyn]_vars

\* ------------------------------------------------------------------------
\* Copies: links built with varied friction parameters, possibly taken by
\* an owner, on which nofriction is called, and called again on its result
\* ------------------------------------------------------------------------

NofrictionArgs == {<<>>} \cup (BOOLEAN \X BOOLEAN)

\* link.nofriction(...): ret is the returned object
nofriction_call ==
    \E a \in NofrictionArgs :
        LET f == nofriction_flags(a)
            r == nofriction(link, robot, f[1], f[2])
        IN  /\ ncalls < MaxCalls
            /\ ret' = [link |-> r.link, robot |-> r.robot]
            /\ op' = "nofriction"
            /\ arg' = a
            /\ err' = r.err
            /\ notified' = r.notified
            /\ ncalls' = ncalls + 1
            /\ UNCHANGED <<link, robot>>

\* the same call made on the object the last nofriction call returned
nofriction_again ==
    /\ op = "nofriction"
    /\ err = OK
    /\ LET f == nofriction_flags(arg)
           r == nofriction(ret.link, ret.robot, f[1], f[2])
       IN  /\ ncalls < MaxCalls
           /\ ret' = [link |-> r.link, robot |-> r.robot]
           /\ op' = "nofriction.nofriction"
           /\ arg' = arg
           /\ err' = r.err
           /\ notified' = r.notified
           /\ ncalls' = ncalls + 1
           /\ UNCHANGED <<link, robot>>

CopyArgs ==
    {[DefaultArgs EXCEPT !.B = b, !.Tc = tc, !.G = g, !.sigma = s, !.m = mass] :
        b \in {S(0), S(2)},
        tc \in {V(<<0, 0>>), V(<<1, -1>>), V(<<2, 3>>)},
        g \in {-3, 1},
        s \in SigmaVals,
        mass \in {0, 2}}

InitCopy == \E p \in CopyArgs : Constructed(p)

NextCopy ==
    \/ Attach
    \/ nofriction_call
    \/ nofriction_again

SpecCopy == InitCopy /\ [][NextCopy]_vars

\* ------------------------------------------------------------------------
\* Presets: the four preset constructors called with varied arguments,
\* followed by the d, theta and sigma setters on the links they built
\* ------------------------------------------------------------------------

PresetArgs ==
    {[args |-> [DefaultArgs EXCEPT !.d = x, !.theta = t, !.alpha = al,
                                   !.a = len, !.offset = o, !.flip = f,
                                   !.qlim = ql],
      kw |-> k] :
        x \in {0, 2}, t \in {0, 2}, al \in {0, 1}, len \in {0, 1},
        o \in {0, 1}, f \in BOOLEAN, ql \in {V(<<-1, 2>>), V(<<1>>)},
        k \in {"", "theta", "d", "sigma", "mdh"}}

InitPreset ==
    \E p \in PresetArgs :
        \/ ConstructedBy("RevoluteDH", p, RevoluteDH_init(p))
        \/ ConstructedBy("PrismaticDH", p, PrismaticDH_init(p))
        \/ ConstructedBy("RevoluteMDH", p, RevoluteMDH_init(p))
        \/ ConstructedBy("PrismaticMDH", p, PrismaticMDH_init(p))

\* a link exists: the constructor returned
Built == ncalls > 0 \/ err = OK

NextPreset ==
    \/ Built /\ d_setter
    \/ Built /\ theta_setter
    \/ Built /\ sigma_setter

SpecPreset == InitPreset /\ [][NextPreset]_vars

\* ------------------------------------------------------------------------
\* Reads: every query, on links with varied parameters that an owner may
\* have taken and whose joint type may be any number
\* ------------------------------------------------------------------------

isrevolute_call == Query("isrevolute", None, isrevolute(link))

isprismatic_call == Query("isprismatic", None, isprismatic(link))

\* link.sigma = x for a number that is neither 0 nor 1 as well
sigma_setter_any == \E x \in {0, 1, 2} : DynSetter("sigma", x, set_sigma(link, x))

ReadArgs ==
    {[DefaultArgs EXCEPT !.sigma = s, !.B = b, !.Tc = tc, !.G = g, !.m = mass] :
        s \in SigmaVals, b \in {S(0), S(2)},
        tc \in {V(<<0, 0>>), V(<<1, -1>>)}, g \in {-3, 1}, mass \in {0, 2}}

InitRead == \E p \in ReadArgs : Constructed(p)

NextRead ==
    \/ Attach
    \/ sigma_setter_any
    \/ A_call
    \/ islimit_call
    \/ friction_call
    \/ isrevolute_call
    \/ isprismatic_call

SpecRead == InitRead /\ [][NextRead]_vars

\* ------------------------------------------------------------------------
\* Properties
\* ------------------------------------------------------------------------

Revolute == link.sigma = 0
Prismatic == link.sigma = 1

\* C1: on a revolute link the theta setter raises for every nonzero value
\* and stores 0 for 0; on a prismatic link the d setter raises for every
\* nonzero value and stores 0 for 0; on the opposite joint type each of the
\* two setters accepts and stores any value.
C1_InactiveParameter ==
    /\ (op = "theta" /\ Revolute /\ arg # 0) =>
            err = "ValueError: theta is not valid for revolute joints"
    /\ (op = "theta" /\ Revolute /\ arg = 0) => (err = OK /\ link.theta = 0)
    /\ (op = "theta" /\ Prismatic) => (err = OK /\ link.theta = arg)
    /\ (op = "d" /\ Prismatic /\ arg # 0) =>
            err = "ValueError: f is not valid for prismatic joints"
    /\ (op = "d" /\ Prismatic /\ arg = 0) => (err = OK /\ link.d = 0)
    /\ (op = "d" /\ Revolute) => (err = OK /\ link.d = arg)

\* a negative d has just been refused on a prismatic link
C1_Witness == op = "d" /\ Prismatic /\ arg = -1 /\ err # OK

\* C2: a setter call that raises leaves every field of the link as it was
\* before the call.
C2_NoPartialMutation == [][err' # OK => link' = link]_vars

\* an asymmetric 9-vector has just been refused on a link whose inertia had
\* been set before
C2_Witness ==
    /\ op = "I"
    /\ err = "ValueError: 3x3 matrix is not symmetric"
    /\ arg.k = "v"
    /\ link.I # Zeros33

DynOps == {"m", "r", "I", "Jm", "B", "Tc", "G", "d", "alpha", "theta", "a",
           "sigma", "mdh"}

\* C3: a call of a dynamics-affecting setter on a link with an owner calls
\* the owner's dynchanged() exactly once during the call; on a link without
\* an owner it calls nothing.
C3_NotifyOnce ==
    op \in DynOps => /\ robot # None => notified = 1
                     /\ robot = None => notified = 0

\* the mass of an owned link has just been set
C3_Witness == op = "m" /\ robot # None /\ err = OK /\ notified = 1 /\ link.m = 2

\* the Coulomb term friction adds for velocity qd
CoulombTerm(qd, coulomb) ==
    IF coulomb /\ qd > 0 THEN link.Tc[1]
    ELSE IF coulomb /\ qd < 0 THEN link.Tc[2]
    ELSE 0

\* C4: friction(qd, coulomb) is -(G*G*B*qd + |G|*c), with c the Coulomb
\* term selected by the sign of qd: the viscous term carries |G| twice, the
\* Coulomb term once, and the sign of G does not matter.  B = 2, G = -3,
\* Tc = (1, -1), qd = 4 gives -75.
C4_Friction ==
    op = "friction" =>
        /\ ret = -(link.G * link.G * link.B * arg[1])
                 - Abs(link.G) * CoulombTerm(arg[1], arg[2])
        /\ (link.B = 2 /\ link.G = -3 /\ link.Tc = <<1, -1>> /\ arg = <<4, TRUE>>)
                => ret = -75

\* the friction of the example has just been computed
C4_Witness ==
    /\ op = "friction"
    /\ link.B = 2 /\ link.G = -3 /\ link.Tc = <<1, -1>>
    /\ arg = <<4, TRUE>>
    /\ ret = -75

\* the adjusted joint variable of the last A(q) call
qAdj == IF link.flip THEN link.offset - arg ELSE link.offset + arg

Identity3(T) ==
    /\ <<T[1][1], T[1][2], T[1][3]>> = <<1, 0, 0>>
    /\ <<T[2][1], T[2][2], T[2][3]>> = <<0, 1, 0>>
    /\ <<T[3][1], T[3][2], T[3][3]>> = <<0, 0, 1>>

Translation(T) == <<T[1][4], T[2][4], T[3][4]>>

\* C5: in A(q) a revolute link rotates by the adjusted joint variable and
\* is offset by its stored d (its stored theta is not used); a prismatic
\* link rotates by its stored theta and is offset by the adjusted joint
\* variable (its stored d is not used).  Standard convention, alpha = 0,
\* a = 0: revolute with d = 2, offset = 0, no flip at q = 0 gives identity
\* rotation and translation (0, 0, 2); prismatic with theta = 0 at q = 3
\* gives identity rotation and translation (0, 0, 3).
C5_ActiveParameter ==
    op = "A" =>
        LET ang == IF Revolute THEN qAdj ELSE link.theta
            off == IF Revolute THEN link.d ELSE qAdj
            sa == _sin(link.alpha)
            ca == _cos(link.alpha)
        IN  /\ ret[1][1] = _cos(ang)
            /\ link.mdh = 0 =>
                  /\ ret[2][1] = _sin(ang)
                  /\ Translation(ret) = <<link.a * _cos(ang), link.a * _sin(ang), off>>
            /\ link.mdh = 1 =>
                  /\ ret[1][2] = -_sin(ang)
                  /\ Translation(ret) = <<link.a, -sa * off, ca * off>>
            /\ (Revolute /\ link.mdh = 0 /\ link.alpha = 0 /\ link.a = 0
                   /\ link.d = 2 /\ link.offset = 0 /\ ~link.flip /\ arg = 0)
                  => (Identity3(ret) /\ Translation(ret) = <<0, 0, 2>>)
            /\ (Prismatic /\ link.mdh = 0 /\ link.alpha = 0 /\ link.a = 0
                   /\ link.theta = 0 /\ link.offset = 0 /\ ~link.flip /\ arg = 3)
                  => (Identity3(ret) /\ Translation(ret) = <<0, 0, 3>>)

\* A(0) has just been computed on the revolute link of the example
C5_Witness ==
    /\ op = "A" /\ arg = 0
    /\ Revolute /\ link.mdh = 0 /\ link.alpha = 0 /\ link.a = 0
    /\ link.d = 2 /\ link.offset = 0 /\ ~link.flip
    /\ Translation(ret) = <<0, 0, 2>>

\* C6: A(q) on a link with flip set equals A(-q) on the same link with flip
\* cleared, for both joint types and every offset; the offset is added, not
\* negated, so a flipped prismatic link in the standard convention is
\* displaced by offset - q.
C6_Flip ==
    (op = "A" /\ link.flip) =>
        /\ ret = A([link EXCEPT !.flip = FALSE], -arg)
        /\ (Prismatic /\ link.mdh = 0) => ret[3][4] = link.offset - arg

\* A(q) has just been computed on a flipped revolute link with an offset
C6_Witness ==
    op = "A" /\ link.flip /\ Revolute /\ link.offset = 1 /\ arg = 1

\* C7: the Tc setter stores (F, -F) for a scalar or 1-element argument F,
\* stores a 2-element argument as given, and raises for any other length.
\* 5.0 gives (5.0, -5.0).
C7_CoulombExpansion ==
    op = "Tc" =>
        /\ arg.k = "s" => (err = OK /\ link.Tc = <<arg.v, -arg.v>>)
        /\ (arg.k = "v" /\ Len(arg.v) = 1) =>
                (err = OK /\ link.Tc = <<arg.v[1], -arg.v[1]>>)
        /\ (arg.k = "v" /\ Len(arg.v) = 2) => (err = OK /\ link.Tc = arg.v)
        /\ (arg.k = "v" /\ Len(arg.v) \notin {1, 2}) => err # OK
        /\ arg = S(5) => link.Tc = <<5, -5>>

\* Tc has just been set from the scalar 5
C7_Witness == op = "Tc" /\ arg = S(5) /\ err = OK /\ link.Tc = <<5, -5>>

\* C8: the I setter turns a 6-vector [Ixx, Iyy, Izz, Ixy, Iyz, Ixz] into
\* the matrix with that diagonal, Ixy at [0][1] and [1][0], Iyz at [1][2]
\* and [2][1], Ixz at [0][2] and [2][0]; a 3-vector into the diagonal
\* matrix of its entries.
C8_InertiaRoundTrip ==
    /\ (op = "I" /\ arg.k = "v" /\ Len(arg.v) = 6) =>
            /\ err = OK
            /\ <<link.I[1][1], link.I[2][2], link.I[3][3]>>
                    = <<arg.v[1], arg.v[2], arg.v[3]>>
            /\ link.I[1][2] = arg.v[4] /\ link.I[2][1] = arg.v[4]
            /\ link.I[2][3] = arg.v[5] /\ link.I[3][2] = arg.v[5]
            /\ link.I[1][3] = arg.v[6] /\ link.I[3][1] = arg.v[6]
    /\ (op = "I" /\ arg.k = "v" /\ Len(arg.v) = 3) =>
            /\ err = OK
            /\ \A i, j \in 1..3 :
                    link.I[i][j] = IF i = j THEN arg.v[i] ELSE 0

\* the inertia has just been set from a 6-vector of distinct entries
C8_Witness ==
    op = "I" /\ arg = V(<<1, 2, 3, 4, 5, 6>>) /\ err = OK /\ link.I[2][3] = 5

\* the 3x3 array a 3x3 or 9-element argument of the I setter stands for
AsMatrix(x) ==
    IF x.k = "m" THEN x.v
    ELSE <<<<x.v[1], x.v[2], x.v[3]>>,
           <<x.v[4], x.v[5], x.v[6]>>,
           <<x.v[7], x.v[8], x.v[9]>>>>

Is33(x) == x.k = "m" /\ Len(x.v) = 3 /\ \A i \in 1..3 : Len(x.v[i]) = 3

IsVec(x, n) == x.k = "v" /\ Len(x.v) = n

\* C9: the I setter refuses a 3x3 matrix, or a 9-vector read row by row,
\* when a mirrored pair of off-diagonal entries differs by more than the
\* tolerance, stores it when every pair differs by at most the tolerance,
\* and refuses every argument that is not 3x3 or of length 9, 6 or 3 with
\* the shape error.
C9_InertiaSymmetry ==
    op = "I" =>
        /\ (Is33(arg) \/ IsVec(arg, 9)) =>
              LET X == AsMatrix(arg)
                  far == \/ Abs(X[1][2] - X[2][1]) > SymTol
                         \/ Abs(X[2][3] - X[3][2]) > SymTol
                         \/ Abs(X[1][3] - X[3][1]) > SymTol
              IN  /\ far => err = "ValueError: 3x3 matrix is not symmetric"
                  /\ ~far => (err = OK /\ link.I = X)
        /\ ~(Is33(arg) \/ IsVec(arg, 9) \/ IsVec(arg, 6) \/ IsVec(arg, 3)) =>
              err = "ValueError: invalid shape passed: must be (3,3), (6,), (3,)"

\* a 3x3 matrix whose [0][1] and [1][0] differ by two units has just been
\* refused
C9_Witness ==
    /\ op = "I" /\ Is33(arg)
    /\ Abs(arg.v[1][2] - arg.v[2][1]) > SymTol
    /\ err = "ValueError: 3x3 matrix is not symmetric"

\* C10 as stated: islimit(q) is true exactly when q < qlim[0] or
\* q > qlim[1], and is false at either bound and inside the interval for
\* every stored pair; with the default limits (0, 0) only q = 0 is within
\* limits.
C10_Original ==
    op = "islimit" =>
        /\ ret = (arg < link.qlim[1] \/ arg > link.qlim[2])
        /\ (arg = link.qlim[1] \/ arg = link.qlim[2]) => ret = FALSE
        /\ (link.qlim[1] <= arg /\ arg <= link.qlim[2]) => ret = FALSE
        /\ link.qlim = <<0, 0>> => (ret = FALSE <=> arg = 0)

\* C10: islimit(q) is true exactly when q < qlim[0] or q > qlim[1]; it is
\* false inside the closed interval, and false at either bound when
\* qlim[0] <= qlim[1]; with the default limits (0, 0) only q = 0 is within
\* limits.
C10_Islimit ==
    op = "islimit" =>
        /\ ret = (arg < link.qlim[1] \/ arg > link.qlim[2])
        /\ (link.qlim[1] <= link.qlim[2]
                /\ (arg = link.qlim[1] \/ arg = link.qlim[2])) => ret = FALSE
        /\ (link.qlim[1] <= arg /\ arg <= link.qlim[2]) => ret = FALSE
        /\ link.qlim = <<0, 0>> => (ret = FALSE <=> arg = 0)

\* islimit has just answered at the upper bound of a proper interval
C10_Witness ==
    /\ op = "islimit"
    /\ link.qlim[1] < link.qlim[2]
    /\ arg = link.qlim[2]
    /\ ret = FALSE

\* the flags of the last nofriction call
Coulomb == nofriction_flags(arg)[1]
Viscous == nofriction_flags(arg)[2]

\* C11 as stated: nofriction returns a new link whose Tc is (0, 0) exactly
\* when coulomb is true and whose B is 0 exactly when viscous is true, every
\* other field being the original's; the call without arguments clears the
\* Coulomb friction only; the original link is left as it was.
C11_Original ==
    /\ [](op = "nofriction" =>
            /\ err = OK
            /\ (ret.link.Tc = <<0, 0>>) <=> Coulomb
            /\ (ret.link.B = 0) <=> Viscous
            /\ [ret.link EXCEPT !.Tc = link.Tc, !.B = link.B] = link
            /\ arg = <<>> => (Coulomb /\ ~Viscous))
    /\ [][op' = "nofriction" => link' = link]_vars

\* C11: nofriction returns a new link whose Tc is (0, 0) when coulomb is
\* true and the original's Tc otherwise, whose B is 0 when viscous is true
\* and the original's B otherwise, every other field being the original's;
\* the flags act independently; the call without arguments clears the
\* Coulomb friction only; the original link is left as it was.
C11_Nofriction ==
    /\ [](op = "nofriction" =>
            /\ err = OK
            /\ ret.link.Tc = IF Coulomb THEN <<0, 0>> ELSE link.Tc
            /\ ret.link.B = IF Viscous THEN 0 ELSE link.B
            /\ [ret.link EXCEPT !.Tc = link.Tc, !.B = link.B] = link
            /\ arg = <<>> => (ret.link.Tc = <<0, 0>> /\ ret.link.B = link.B))
    /\ [][op' = "nofriction" => link' = link]_vars

\* nofriction() has just cleared the Coulomb friction of a copy of a link
\* that keeps its own viscous and Coulomb friction
C11_Witness ==
    /\ op = "nofriction" /\ arg = <<>>
    /\ link.B = 2 /\ link.Tc = <<1, -1>>
    /\ ret.link.B = 2 /\ ret.link.Tc = <<0, 0>>

\* C12: nofriction called with the same flags on the link that nofriction
\* returned gives a link with the same field values.
C12_Idempotent ==
    [][op' = "nofriction.nofriction" => ret'.link = ret.link]_vars

\* nofriction has been repeated on a copy whose Coulomb friction the first
\* call had cleared
C12_Witness ==
    /\ op = "nofriction.nofriction"
    /\ Coulomb
    /\ link.Tc = <<2, 3>>
    /\ ret.link.Tc = <<0, 0>>

InactiveRejections ==
    {"ValueError: theta is not valid for revolute joints",
     "ValueError: f is not valid for prismatic joints"}

\* the link a preset constructor returned has the given joint type and
\* convention, and its inactive parameter is 0
PresetGives(name, sigma, mdh) ==
    op = name =>
        /\ err \notin InactiveRejections
        /\ (arg.kw \in {"", IF sigma = 0 THEN "d" ELSE "theta"}
                /\ Len(arg.args.qlim.v) = 2) => err = OK
        /\ err = OK =>
              /\ link.sigma = sigma
              /\ link.mdh = mdh
              /\ IF sigma = 0 THEN link.theta = 0 ELSE link.d = 0
              /\ IF sigma = 0 THEN link.d = arg.args.d
                              ELSE link.theta = arg.args.theta

\* C13: whatever the other arguments are, RevoluteDH builds sigma = 0,
\* standard, theta = 0; PrismaticDH sigma = 1, standard, d = 0; RevoluteMDH
\* sigma = 0, modified, theta = 0; PrismaticMDH sigma = 1, modified, d = 0;
\* no construction is refused for its inactive parameter, and one with
\* valid remaining parameters succeeds.
C13_Presets ==
    /\ PresetGives("RevoluteDH", 0, 0)
    /\ PresetGives("PrismaticDH", 1, 0)
    /\ PresetGives("RevoluteMDH", 0, 1)
    /\ PresetGives("PrismaticMDH", 1, 1)

\* PrismaticMDH has just built a link with a nonzero theta
C13_Witness ==
    /\ op = "PrismaticMDH" /\ err = OK
    /\ link.sigma = 1 /\ link.mdh = 1 /\ link.d = 0 /\ link.theta = 2

\* C14: in every state reached by construction followed by setter calls, a
\* revolute link has theta = 0 and a prismatic link has d = 0.
C14_InactiveParameterZero ==
    /\ Revolute => link.theta = 0
    /\ Prismatic => link.d = 0

\* C15: in every state reached by construction followed by inertia setter
\* calls, accepted or refused, the stored inertia is a 3x3 matrix whose
\* mirrored entries differ by at most the tolerance.
C15_InertiaSymmetric ==
    /\ Len(link.I) = 3
    /\ \A i \in 1..3 : Len(link.I[i]) = 3
    /\ \A i, j \in 1..3 : Abs(link.I[i][j] - link.I[j][i]) <= SymTol

\* a 9-vector whose mirrored entries differ within the tolerance has just
\* been stored
C15_Witness ==
    /\ op = "I" /\ err = OK
    /\ IsVec(arg, 9)
    /\ link.I[1][2] # link.I[2][1]

ReadOps == {"A", "friction", "islimit", "isrevolute", "isprismatic"}

\* C16: A, friction, islimit, isrevolute and isprismatic raise nothing,
\* leave every field of the link and its owner reference as they were and
\* never call the owner; friction depends on B, Tc and G only; in every
\* state exactly one of isrevolute() and isprismatic() is true.
C16_ReadOnly ==
    /\ [][op' \in ReadOps =>
            (link' = link /\ robot' = robot /\ err' = OK /\ notified' = 0)]_vars
    /\ [](isrevolute(link) # isprismatic(link))
    /\ [](op = "isrevolute" => ret = (link.sigma = 0))
    /\ [](op = "friction" =>
            ret = friction([Blank EXCEPT !.B = link.B, !.Tc = link.Tc,
                                         !.G = link.G], arg[1], arg[2]))

\* friction has just been computed on a link that has an owner and a mass
C16_Witness ==
    /\ op = "friction" /\ robot # None
    /\ link.B = 2 /\ link.m = 2
    /\ notified = 0 /\ err = OK

\* C17: on a link with an owner a dynamics-affecting setter calls the owner
\* before it validates: a call that raises has made exactly one call of
\* dynchanged() and changed no field; the offset, qlim and flip setters
\* never call the owner.
C17_NotifyBeforeValidate ==
    /\ [][(op' \in DynOps /\ robot # None /\ err' # OK) =>
            (notified' = 1 /\ link' = link)]_vars
    /\ []((op \in DynOps /\ robot # None /\ err = OK) => notified = 1)
    /\ [](op \in {"offset", "qlim", "flip"} => notified = 0)

\* a nonzero d has just been refused on a prismatic link that has an owner
C17_Witness ==
    /\ op = "d" /\ robot # None /\ Prismatic
    /\ err = "ValueError: f is not valid for prismatic joints"
    /\ notified = 1

\* C18: the link nofriction returns has the owner of the original; with an
\* owner, nofriction calls dynchanged() once for each friction term it
\* clears (once without arguments, twice with both flags, never with
\* neither); the original link is left as it was.
C18_CopyKeepsOwner ==
    /\ [](op = "nofriction" =>
            /\ ret.robot = robot
            /\ robot # None =>
                  /\ notified = (IF Coulomb THEN 1 ELSE 0) + (IF Viscous THEN 1 ELSE 0)
                  /\ arg = <<>> => notified = 1
                  /\ arg = <<TRUE, TRUE>> => notified = 2
                  /\ arg = <<FALSE, FALSE>> => notified = 0
            /\ robot = None => notified = 0)
    /\ [][op' = "nofriction" => (link' = link /\ robot' = robot)]_vars

\* nofriction has just cleared both friction terms on a copy of a link that
\* has an owner
C18_Witness ==
    /\ op = "nofriction" /\ arg = <<TRUE, TRUE>>
    /\ robot # None /\ ret.robot = robot
    /\ notified = 2
    /\ link.B = 2 /\ ret.link.B = 0

====
